---- MODULE Spec2Model ----
(***************************************************************************)
(* Model of openx/utils/spec.py: ModuleSpec.create / instantiate /         *)
(* to_string / is_module_spec, add_kwarg and recursively_instantiate.      *)
(*                                                                         *)
(* Python values are records of one fixed shape                            *)
(*   [t |-> type tag, n |-> int payload, s |-> text payload,               *)
(*    keys |-> sequence of strings, items |-> sequence of values]          *)
(* A dict keeps its keys in insertion order in `keys` and the values in    *)
(* `items`.  A str keeps its text in `s` and, in `keys`, the text cut at   *)
(* every separator character (":" and "." are fragments of their own), so  *)
(* that str.count and str.split are computed and not assumed.              *)
(* The config is a tree: no dict object is embedded at two places.         *)
(***************************************************************************)
EXTENDS Integers, Sequences, FiniteSets, TLC

VARIABLES config, made, op, arg, res, trace, nsets

vars == <<config, made, op, arg, res, trace, nsets>>

(* ------------------------------ bounds -------------------------------- *)

\* how many add_kwarg calls one behaviour makes
MaxSets == 3

(* --------------------------- Python values ---------------------------- *)

Val(t, n, s, keys, items) == [t |-> t, n |-> n, s |-> s, keys |-> keys, items |-> items]

PyNone == Val("None", 0, "", <<>>, <<>>)

PyInt(n) == Val("int", n, "", <<>>, <<>>)

RECURSIVE Concat(_)
Concat(frags) == IF frags = <<>> THEN "" ELSE Head(frags) \o Concat(Tail(frags))

\* a str given by its fragments
StrF(frags) == Val("str", 0, Concat(frags), frags, <<>>)

\* a str without separator characters
Str(s) == StrF(IF s = "" THEN <<>> ELSE <<s>>)

List(items) == Val("list", 0, "", <<>>, items)

Tuple(items) == Val("tuple", 0, "", <<>>, items)

PySet(items) == Val("set", 0, "", <<>>, items)

Dict(keys, items) == Val("dict", 0, "", keys, items)

\* a function or class object: `id` is its identity, the attributes are
\* the ones _infer_full_name asks for
Callable(id, attrs, vals) == Val("callable", 0, id, attrs, vals)

Range(f) == {f[i] : i \in DOMAIN f}

HasKey(d, k) == k \in Range(d.keys)

IndexOf(d, k) == CHOOSE i \in DOMAIN d.keys : d.keys[i] = k

\* d[k] for a key that is present
Get(d, k) == d.items[IndexOf(d, k)]

\* d[k] = v on a dict: a present key keeps its position, a new one goes last
SetItem(d, k, v) ==
    IF HasKey(d, k)
    THEN Dict(d.keys, [d.items EXCEPT ![IndexOf(d, k)] = v])
    ELSE Dict(Append(d.keys, k), Append(d.items, v))

\* the outcome of an operation: err = "" when it returned val, else the
\* exception raised; tr lists the imports and calls it made, in order
Ok(v) == [err |-> "", val |-> v, tr |-> <<>>]

Raise(e) == [err |-> e, val |-> PyNone, tr |-> <<>>]

\* the same outcome after the events `before`
After(before, out) == [out EXCEPT !.tr = before \o out.tr]

ImportEv(module, name) == [ev |-> "import", f |-> Tuple(<<module, name>>), args |-> Tuple(<<>>), kwargs |-> Dict(<<>>, <<>>)]

CallEv(f, args, kwargs) == [ev |-> "call", f |-> f, args |-> args, kwargs |-> kwargs]

(* ------------------------------ strings ------------------------------- *)

\* count as a test for "the separator occurs"
count_any(frags, sep) == IF sep \in Range(frags) THEN 1 ELSE 0

\* str.count(sep) for a one-character separator
RECURSIVE count(_, _)
count(frags, sep) ==
    IF frags = <<>> THEN 0
    ELSE (IF Head(frags) = sep THEN 1 ELSE 0) + count(Tail(frags), sep)

\* str.split(sep): the pieces between the separators, the empty ones too
RECURSIVE splitFrom(_, _, _)
splitFrom(frags, sep, cur) ==
    IF frags = <<>> THEN <<cur>>
    ELSE IF Head(frags) = sep
         THEN <<cur>> \o splitFrom(Tail(frags), sep, "")
         ELSE splitFrom(Tail(frags), sep, cur \o Head(frags))

split(frags, sep) == splitFrom(frags, sep, "")

(* ----------------------------- the registry --------------------------- *)

Add == Callable("Add", <<"__module__", "__name__">>, <<Str("math"), Str("Add")>>)

Inner == Callable("Inner", <<"__module__", "__name__">>, <<Str("ns"), Str("Inner")>>)

Outer == Callable("Outer", <<"__module__", "__name__">>, <<Str("ns"), Str("Outer")>>)

\* a wrapper that carries the wrapped function's __module__ and __name__
Wrapped == Callable("Wrapped", <<"__module__", "__name__">>, <<Str("ns"), Str("Inner")>>)

\* a function defined inside another one: its name is bound in no module
Local == Callable("Local", <<"__module__", "__name__">>, <<Str("ns"), Str("<locals>")>>)

\* a functools.partial object: it has no __name__
Part == Callable("Part", <<"__module__">>, <<Str("functools")>>)

Callables == {Add, Inner, Outer, Wrapped, Local, Part}

\* what importlib and getattr find: module name -> attribute name -> object
Modules == [math |-> [Add |-> Add], ns |-> [Inner |-> Inner, Outer |-> Outer]]

(* ------------------------------ ModuleSpec ---------------------------- *)

FieldNames == <<"module", "name", "args", "kwargs">>

ModuleSpec(module, name, args, kwargs) == Dict(FieldNames, <<module, name, args, kwargs>>)

_infer_full_name(o) ==
    IF HasKey(o, "__module__") /\ HasKey(o, "__name__")
    THEN Ok(Tuple(<<Get(o, "__module__"), Get(o, "__name__")>>))
    ELSE Raise("ValueError:infer")

_import_from_string(module_string, name) ==
    IF /\ module_string.t = "str" /\ name.t = "str"
       /\ module_string.s \in DOMAIN Modules
       /\ name.s \in DOMAIN Modules[module_string.s]
    THEN After(<<ImportEv(module_string, name)>>, Ok(Modules[module_string.s][name.s]))
    ELSE After(<<ImportEv(module_string, name)>>, Raise("ValueError:import"))

\* create that forgets the keyword arguments
create_no_kwargs(callable_or_full_name, args, kwargs) ==
    IF callable_or_full_name.t = "str"
    THEN IF count(callable_or_full_name.keys, ":") # 1
         THEN Raise("AssertionError")
         ELSE LET parts == split(callable_or_full_name.keys, ":")
              IN  Ok(ModuleSpec(Str(parts[1]), Str(parts[2]), args, Dict(<<>>, <<>>)))
    ELSE LET full == _infer_full_name(callable_or_full_name)
         IN  IF full.err # "" THEN full
             ELSE Ok(ModuleSpec(full.val.items[1], full.val.items[2], args, Dict(<<>>, <<>>)))

\* ModuleSpec.create(callable_or_full_name, *args, **kwargs)
create(callable_or_full_name, args, kwargs) ==
    IF callable_or_full_name.t = "str"
    THEN IF count(callable_or_full_name.keys, ":") # 1
         THEN Raise("AssertionError")
         ELSE LET parts == split(callable_or_full_name.keys, ":")
              IN  Ok(ModuleSpec(Str(parts[1]), Str(parts[2]), args, kwargs))
    ELSE LET full == _infer_full_name(callable_or_full_name)
         IN  IF full.err # "" THEN full
             ELSE Ok(ModuleSpec(full.val.items[1], full.val.items[2], args, kwargs))

\* the items of *x for the iterables the model's inputs hold
Unpack(x) == IF x.t = "dict" THEN [i \in DOMAIN x.keys |-> Str(x.keys[i])] ELSE x.items

Iterable(x) == x.t \in {"tuple", "list", "set", "dict"}

\* functools.partial(cls, *args, **kwargs)
partial(cls, args, kwargs) == Val("partial", 0, "", <<>>, <<cls, Tuple(args), kwargs>>)

\* ModuleSpec.instantiate(spec)
instantiate(spec) ==
    IF spec.t = "None" THEN Ok(PyNone)
    ELSE IF spec.t # "dict" THEN Raise("AttributeError")
    ELSE IF Range(spec.keys) # {"module", "name", "args", "kwargs"} THEN Raise("ValueError:shape")
    ELSE LET cls == _import_from_string(Get(spec, "module"), Get(spec, "name"))
         IN  IF cls.err # "" THEN cls
             ELSE IF ~Iterable(Get(spec, "args")) \/ Get(spec, "kwargs").t # "dict"
                  THEN After(cls.tr, Raise("TypeError"))
                  ELSE After(cls.tr, Ok(partial(cls.val, Unpack(Get(spec, "args")), Get(spec, "kwargs"))))

\* a merge in which the bound value wins a collision
RECURSIVE Merge_bound_wins(_, _)
Merge_bound_wins(bound, extra) ==
    IF extra.keys = <<>> THEN bound
    ELSE Merge_bound_wins(IF HasKey(bound, Head(extra.keys)) THEN bound
                          ELSE SetItem(bound, Head(extra.keys), Head(extra.items)),
                          Dict(Tail(extra.keys), Tail(extra.items)))

\* {**bound, **extra}
RECURSIVE Merge(_, _)
Merge(bound, extra) ==
    IF extra.keys = <<>> THEN bound
    ELSE Merge(SetItem(bound, Head(extra.keys), Head(extra.items)),
               Dict(Tail(extra.keys), Tail(extra.items)))

\* what calling the constructible f(*args, **kwargs) returns
Invoke(f, args, kwargs) == Val("obj", 0, f.s, <<>>, <<Tuple(args), kwargs>>)

\* partial.__call__(*E, **X)
partial_call(p, E, X) ==
    LET f == p.items[1]
        args == p.items[2].items \o E
        kwargs == Merge(p.items[3], X)
    IN  After(<<CallEv(f, Tuple(args), kwargs)>>, Ok(Invoke(f, args, kwargs)))

\* the test without the length: a dict with more keys passes too
is_module_spec_any_size(d) ==
    /\ d.t = "dict"
    /\ \A i \in DOMAIN FieldNames : HasKey(d, FieldNames[i])

\* ModuleSpec.is_module_spec(d)
is_module_spec(d) ==
    /\ d.t = "dict"
    /\ \A i \in DOMAIN FieldNames : HasKey(d, FieldNames[i])
    /\ Len(d.keys) = 4

(* ------------------------------ to_string ----------------------------- *)

\* bool(x) for the values of the model
Truthy(x) ==
    CASE x.t = "None" -> FALSE
      [] x.t = "int" -> x.n # 0
      [] x.t = "str" -> x.s # ""
      [] x.t = "dict" -> x.keys # <<>>
      [] x.t \in {"tuple", "list", "set"} -> x.items # <<>>
      [] OTHER -> TRUE

\* sep.join(texts)
RECURSIVE join(_, _)
join(sep, texts) ==
    IF texts = <<>> THEN ""
    ELSE IF Len(texts) = 1 THEN texts[1]
    ELSE texts[1] \o sep \o join(sep, Tail(texts))

\* repr(x) and str(x)
RECURSIVE py_repr(_)
py_repr(x) ==
    CASE x.t = "None" -> "None"
      [] x.t = "int" -> ToString(x.n)
      [] x.t = "str" -> "'" \o x.s \o "'"
      [] x.t = "list" -> "[" \o join(", ", [i \in DOMAIN x.items |-> py_repr(x.items[i])]) \o "]"
      [] x.t = "tuple" ->
            IF Len(x.items) = 1 THEN "(" \o py_repr(x.items[1]) \o ",)"
            ELSE "(" \o join(", ", [i \in DOMAIN x.items |-> py_repr(x.items[i])]) \o ")"
      [] x.t = "set" ->
            IF x.items = <<>> THEN "set()"
            ELSE "{" \o join(", ", [i \in DOMAIN x.items |-> py_repr(x.items[i])]) \o "}"
      [] x.t = "dict" ->
            "{" \o join(", ", [i \in DOMAIN x.keys |->
                                 "'" \o x.keys[i] \o "': " \o py_repr(x.items[i])]) \o "}"
      [] OTHER -> "<" \o x.t \o " " \o x.s \o ">"

py_str(x) == IF x.t = "str" THEN x.s ELSE py_repr(x)

\* ModuleSpec.to_string(spec)
to_string(spec) ==
    IF spec.t # "dict" THEN Raise("TypeError")
    ELSE IF \E i \in DOMAIN FieldNames : ~HasKey(spec, FieldNames[i]) THEN Raise("KeyError")
    ELSE LET args == Get(spec, "args")
             kwargs == Get(spec, "kwargs")
             parts == Unpack(args)
         IN  IF ~Iterable(args) \/ \E i \in DOMAIN parts : parts[i].t # "str"
             THEN Raise("TypeError")
             ELSE IF kwargs.t # "dict" THEN Raise("AttributeError")
             ELSE Ok(Str(py_str(Get(spec, "module")) \o ":" \o py_str(Get(spec, "name"))
                         \o "(" \o join(", ", [i \in DOMAIN parts |-> parts[i].s])
                         \o (IF Truthy(args) /\ Truthy(kwargs) THEN ", " ELSE "")
                         \o join(", ", [i \in DOMAIN kwargs.keys |->
                                          kwargs.keys[i] \o "=" \o py_str(kwargs.items[i])])
                         \o ")"))

(* ------------------------------ add_kwarg ----------------------------- *)

\* a descent that never looks for a ModuleSpec
Descend_never(d) == d

\* `if ModuleSpec.is_module_spec(d): d = d["kwargs"]`
Descend(d) == IF is_module_spec(d) THEN Get(d, "kwargs") ELSE d

\* the node d after its Descend(d) became `inner`
Ascend(d, inner) == IF is_module_spec(d) THEN SetItem(d, "kwargs", inner) ELSE inner

\* a lookup that takes an absent key for an empty dict
GetItem_default(node, key_part) ==
    IF node.t # "dict" THEN Raise("TypeError")
    ELSE IF ~HasKey(node, key_part) THEN Ok(Dict(<<>>, <<>>))
    ELSE Ok(Get(node, key_part))

\* `d[key_part]` with a str key_part
GetItem(node, key_part) ==
    IF node.t # "dict" THEN Raise("TypeError")
    ELSE IF ~HasKey(node, key_part) THEN Raise("KeyError")
    ELSE Ok(Get(node, key_part))

\* a store that rebuilds the dict around the one entry
StoreLast_fresh(node, key, v) ==
    IF node.t = "dict" THEN Ok(Dict(<<key>>, <<v>>))
    ELSE [Raise("TypeError") EXCEPT !.val = node]

\* `d[key_parts[-1]] = v`
StoreLast(node, key, v) ==
    IF node.t = "dict" THEN Ok(SetItem(node, key, v))
    ELSE [Raise("TypeError") EXCEPT !.val = node]

\* the loop and the store of add_kwarg on the node d: val is d as the call
\* leaves it, whether it returned or raised
RECURSIVE walk(_, _, _)
walk(d, key_parts, v) ==
    LET node == Descend(d)
        key_part == Head(key_parts)
    IN  IF Len(key_parts) = 1
        THEN LET out == StoreLast(node, key_part, v)
             IN  [out EXCEPT !.val = Ascend(d, out.val)]
        ELSE LET child == GetItem(node, key_part)
             IN  IF child.err # "" THEN [child EXCEPT !.val = d]
                 ELSE LET out == walk(child.val, Tail(key_parts), v)
                      IN  [out EXCEPT !.val = Ascend(d, SetItem(node, key_part, out.val))]

\* add_kwarg(d, k, v)
add_kwarg(d, k, v) == walk(d, split(k.keys, "."), v)

(* ----------------------- recursively_instantiate ---------------------- *)

RECURSIVE recursively_instantiate(_)
RECURSIVE map_instantiate(_)

\* map(recursively_instantiate, items), left to right, up to the first raise
map_instantiate(items) ==
    IF items = <<>> THEN Ok(Tuple(<<>>))
    ELSE LET first == recursively_instantiate(Head(items))
         IN  IF first.err # "" THEN first
             ELSE LET rest == map_instantiate(Tail(items))
                  IN  IF rest.err # "" THEN After(first.tr, rest)
                      ELSE After(first.tr, [rest EXCEPT !.val = Tuple(<<first.val>> \o rest.val.items)])

\* a rebuild that makes a list of every sequence
Rebuild_as_list(obj, items) == List(items)

\* `type(obj)(...)` for a tuple or a list
Rebuild(obj, items) == Val(obj.t, 0, "", <<>>, items)

\* an instantiator that resolves a ModuleSpec before its arguments
recursively_instantiate_top_down(obj) ==
    IF is_module_spec(obj)
    THEN LET bound == instantiate(obj)
         IN  IF bound.err # "" THEN bound
             ELSE LET made_obj == partial_call(bound.val, <<>>, Dict(<<>>, <<>>))
                      inside == map_instantiate(made_obj.val.items)
                  IN  After(bound.tr \o made_obj.tr, [inside EXCEPT !.val = made_obj.val])
    ELSE IF obj.t = "dict"
    THEN LET vals == map_instantiate(obj.items)
         IN  IF vals.err # "" THEN vals ELSE [vals EXCEPT !.val = Dict(obj.keys, vals.val.items)]
    ELSE IF obj.t \in {"tuple", "list"}
    THEN LET vals == map_instantiate(obj.items)
         IN  IF vals.err # "" THEN vals ELSE [vals EXCEPT !.val = Rebuild(obj, vals.val.items)]
    ELSE Ok(obj)

recursively_instantiate(obj) ==
    IF is_module_spec(obj)
    THEN LET args == recursively_instantiate(Get(obj, "args"))
         IN  IF args.err # "" THEN args
             ELSE LET kwargs == recursively_instantiate(Get(obj, "kwargs"))
                  IN  IF kwargs.err # "" THEN After(args.tr, kwargs)
                      ELSE LET spec == ModuleSpec(Get(obj, "module"), Get(obj, "name"), args.val, kwargs.val)
                               bound == instantiate(spec)
                           IN  IF bound.err # "" THEN After(args.tr \o kwargs.tr, bound)
                               ELSE After(args.tr \o kwargs.tr \o bound.tr,
                                          partial_call(bound.val, <<>>, Dict(<<>>, <<>>)))
    ELSE IF obj.t = "dict"
    THEN LET vals == map_instantiate(obj.items)
         IN  IF vals.err # "" THEN vals ELSE [vals EXCEPT !.val = Dict(obj.keys, vals.val.items)]
    ELSE IF obj.t \in {"tuple", "list"}
    THEN LET vals == map_instantiate(obj.items)
         IN  IF vals.err # "" THEN vals ELSE [vals EXCEPT !.val = Rebuild(obj, vals.val.items)]
    ELSE Ok(obj)

(* ------------------------------- inputs ------------------------------- *)

EmptyDict == Dict(<<>>, <<>>)

\* a sequence without the positions whose key is not in `keep`
RECURSIVE Pick(_, _, _)
Pick(keys, items, keep) ==
    IF keys = <<>> THEN <<>>
    ELSE (IF Head(keys) \in keep THEN <<Head(items)>> ELSE <<>>) \o Pick(Tail(keys), Tail(items), keep)

ShapeKeys == <<"module", "name", "args", "kwargs", "extra">>

ShapeVals == <<Str("ns"), Str("Inner"), Tuple(<<Str("p")>>), Dict(<<"c">>, <<PyInt(1)>>), PyInt(0)>>

\* the dicts with every subset of the four field names and of one more key
ShapeDicts == {Dict(Pick(ShapeKeys, ShapeKeys, K), Pick(ShapeKeys, ShapeVals, K)) : K \in SUBSET Range(ShapeKeys)}

\* a node holding `body`: a plain dict, or a ModuleSpec with `body` as kwargs
Node(kind, name, body) ==
    IF kind = "spec" THEN ModuleSpec(Str("ns"), Str(name), Tuple(<<PyInt(2)>>), body) ELSE body

\* the config {a: {b: {c: 1}}, n: 7} with each of its three dicts plain or
\* wrapped in a ModuleSpec
Chain(k1, k2, k3) ==
    Node(k1, "Outer", Dict(<<"a", "n">>,
        <<Node(k2, "Outer", Dict(<<"b">>,
            <<Node(k3, "Inner", Dict(<<"c">>, <<PyInt(1)>>))>>)), PyInt(7)>>))

Kinds == {"plain", "spec"}

ChainRoots == {Chain(k1, k2, k3) : k1, k2, k3 \in Kinds}

InnerSpec == ModuleSpec(Str("ns"), Str("Inner"), Tuple(<<>>), EmptyDict)

\* a ModuleSpec naming a module that does not exist
LostSpec == ModuleSpec(Str("nowhere"), Str("Inner"), Tuple(<<>>), EmptyDict)

\* containers of every kind without a ModuleSpec
PlainTree == Dict(<<"l", "t", "s", "a">>,
                  <<List(<<PyInt(1), Tuple(<<Str("p")>>)>>),
                    Tuple(<<List(<<>>), EmptyDict>>),
                    PySet(<<PyInt(1), Str("p")>>),
                    Dict(<<"module", "name", "args">>, <<Str("ns"), Str("Inner"), Tuple(<<>>)>>)>>)

\* ModuleSpecs inside the args and kwargs of a ModuleSpec, at several depths
NestedSpec == ModuleSpec(Str("ns"), Str("Outer"),
                  Tuple(<<InnerSpec, List(<<ModuleSpec(Str("math"), Str("Add"), Tuple(<<PyInt(1)>>), EmptyDict)>>)>>),
                  Dict(<<"a", "s">>,
                       <<Dict(<<"b">>, <<Tuple(<<ModuleSpec(Str("ns"), Str("Inner"), Tuple(<<>>),
                                                          Dict(<<"c">>, <<InnerSpec>>))>>)>>),
                         PySet(<<PyInt(1)>>)>>))

\* a list holding a ModuleSpec that resolves and one that does not
MixedList == List(<<InnerSpec, LostSpec, InnerSpec>>)

Roots == ChainRoots \cup ShapeDicts \cup {PlainTree, NestedSpec, MixedList, PyNone}

Sources == {StrF(<<"ns", ":", "Inner">>), StrF(<<"math", ":", "Add">>), StrF(<<"ns", ":", "Name">>),
            Str("no_colon_here"), StrF(<<"a", ":", "b", ":", "c">>), StrF(<<":">>)} \cup Callables

ArgLists == {<<>>, <<PyInt(1), PyInt(2)>>, <<Str("p"), Str("q")>>}

KwDicts == {EmptyDict, Dict(<<"x">>, <<PyInt(3)>>)}

ExtraArgs == {<<>>, <<PyInt(9)>>}

ExtraKwargs == {EmptyDict, Dict(<<"x">>, <<PyInt(8)>>), Dict(<<"y", "x">>, <<PyInt(8), PyInt(9)>>)}

Paths == {StrF(<<"a", ".", "b", ".", "c">>), StrF(<<"a", ".", "b", ".", "x">>),
          StrF(<<"a", ".", "x", ".", "c">>), StrF(<<"x", ".", "b", ".", "c">>),
          StrF(<<"a", ".", "b", ".", "x", ".", "c">>), StrF(<<"n", ".", "c", ".", "d">>),
          StrF(<<"n", ".", "c">>), Str("kwargs"), StrF(<<"a", ".", "kwargs">>), Str("a")}

NewValues == {PyInt(5), InnerSpec}

(* ---------------------------- state machine --------------------------- *)

NoArg == [k |-> Str(""), v |-> PyNone, old |-> PyNone, E |-> <<>>, X |-> EmptyDict]

NoMade == [live |-> FALSE, src |-> PyNone, args |-> Tuple(<<>>), kwargs |-> EmptyDict]

Init ==
    /\ config \in Roots
    /\ made = NoMade
    /\ op = "init"
    /\ arg = NoArg
    /\ res = Ok(PyNone)
    /\ trace = <<>>
    /\ nsets = 0

\* config = ModuleSpec.create(src, *a, **kw)
Create(src, a, kw) ==
    LET out == create(src, Tuple(a), kw)
    IN  /\ op' = "create"
        /\ arg' = NoArg
        /\ res' = out
        /\ trace' = out.tr
        /\ config' = IF out.err = "" THEN out.val ELSE config
        /\ made' = IF out.err = "" THEN [live |-> TRUE, src |-> src, args |-> Tuple(a), kwargs |-> kw]
                   ELSE [NoMade EXCEPT !.src = src]
        /\ UNCHANGED nsets

\* res = ModuleSpec.instantiate(config)
Instantiate ==
    LET out == instantiate(config)
    IN  /\ op' = "instantiate"
        /\ arg' = NoArg
        /\ res' = out
        /\ trace' = out.tr
        /\ UNCHANGED <<config, made, nsets>>

\* res = res(*E, **X) on the binding instantiate has just returned
Call(E, X) ==
    /\ op = "instantiate"
    /\ res.err = ""
    /\ res.val.t = "partial"
    /\ LET out == partial_call(res.val, E, X)
       IN  /\ op' = "call"
           /\ arg' = [NoArg EXCEPT !.E = E, !.X = X]
           /\ res' = out
           /\ trace' = out.tr
    /\ UNCHANGED <<config, made, nsets>>

\* res = recursively_instantiate(config)
Materialize ==
    LET out == recursively_instantiate(config)
    IN  /\ op' = "materialize"
        /\ arg' = NoArg
        /\ res' = out
        /\ trace' = out.tr
        /\ UNCHANGED <<config, made, nsets>>

\* res = ModuleSpec.to_string(config)
ToStr ==
    LET out == to_string(config)
    IN  /\ op' = "to_string"
        /\ arg' = NoArg
        /\ res' = out
        /\ trace' = out.tr
        /\ UNCHANGED <<config, made, nsets>>

\* add_kwarg(config, k, v)
AddKwarg(k, v) ==
    /\ nsets < MaxSets
    /\ LET out == add_kwarg(config, k, v)
       IN  /\ op' = "add_kwarg"
           /\ arg' = [NoArg EXCEPT !.k = k, !.v = v, !.old = config]
           /\ res' = [out EXCEPT !.val = PyNone]
           /\ trace' = out.tr
           /\ config' = out.val
    /\ made' = [made EXCEPT !.live = FALSE]
    /\ nsets' = nsets + 1

\* the override engine and the instantiator at work on a config
Next ==
    \/ Instantiate
    \/ Materialize
    \/ \E k \in Paths, v \in NewValues : AddKwarg(k, v)

Spec == Init /\ [][Next]_vars

\* building ModuleSpecs, resolving, calling and rendering them
NextCreate ==
    \/ \E src \in Sources, a \in ArgLists, kw \in KwDicts : Create(src, a, kw)
    \/ Instantiate
    \/ \E E \in ExtraArgs, X \in ExtraKwargs : Call(E, X)
    \/ ToStr

SpecCreate == Init /\ [][NextCreate]_vars

(* ------------------------------ properties ---------------------------- *)

\* the field set of the mapping m is exactly the four field names
ExactlyFour(m) == m.t = "dict" /\ Range(m.keys) = {"module", "name", "args", "kwargs"}

\* the registry lookup of the module and name the object o exposes yields o
RegistryYields(o) ==
    /\ HasKey(o, "__module__") /\ HasKey(o, "__name__")
    /\ Get(o, "__module__").s \in DOMAIN Modules
    /\ Get(o, "__name__").s \in DOMAIN Modules[Get(o, "__module__").s]
    /\ Modules[Get(o, "__module__").s][Get(o, "__name__").s] = o

\* C1: the binding of instantiate(create(C, *args, **kwargs)), called with no
\* extra arguments, invokes C exactly once with args and kwargs and returns
\* what the direct call C(*args, **kwargs) returns, for every C that the
\* registry lookup of its own module and name yields.
C1_RoundTrip ==
    (/\ op = "call" /\ made.live /\ made.src.t = "callable" /\ RegistryYields(made.src)
     /\ arg.E = <<>> /\ arg.X = EmptyDict)
    => /\ trace = <<CallEv(made.src, made.args, made.kwargs)>>
       /\ res.err = ""
       /\ res.val = Invoke(made.src, made.args.items, made.kwargs)

C1_Witness ==
    /\ op = "call" /\ made.live /\ made.src = Add
    /\ made.args = Tuple(<<PyInt(1), PyInt(2)>>) /\ made.kwargs = Dict(<<"x">>, <<PyInt(3)>>)
    /\ arg.E = <<>> /\ arg.X = EmptyDict
    /\ res.val.t = "obj" /\ res.val.s = "Add"

\* C2: the binding of instantiate(spec), called with extra positional
\* arguments E and extra keyword arguments X, calls the looked-up
\* constructible once with the bound args followed by E and with the bound
\* kwargs overridden by X: a name in both gets the value of X.
C2_PartialCall ==
    op = "call" =>
        LET A == Get(config, "args").items
            K == Get(config, "kwargs")
            f == Modules[Get(config, "module").s][Get(config, "name").s]
            passed == trace[1].kwargs
        IN  /\ Len(trace) = 1
            /\ trace[1].ev = "call"
            /\ trace[1].f = f
            /\ trace[1].args.items = A \o arg.E
            /\ Range(passed.keys) = Range(K.keys) \cup Range(arg.X.keys)
            /\ Len(passed.keys) = Cardinality(Range(passed.keys))
            /\ \A k \in Range(passed.keys) :
                   Get(passed, k) = IF HasKey(arg.X, k) THEN Get(arg.X, k) ELSE Get(K, k)
            /\ res.err = ""
            /\ res.val = Invoke(f, A \o arg.E, passed)

C2_Witness ==
    /\ op = "call"
    /\ HasKey(Get(config, "kwargs"), "x") /\ Get(Get(config, "kwargs"), "x") = PyInt(3)
    /\ Get(config, "args").items # <<>>
    /\ arg.E = <<PyInt(9)>> /\ arg.X = Dict(<<"y", "x">>, <<PyInt(8), PyInt(9)>>)
    /\ Get(trace[1].kwargs, "x") = PyInt(9)

\* the positions of the separator ":" in the text of a str
Colons(src) == {i \in DOMAIN src.keys : src.keys[i] = ":"}

\* C9: create with a string source returns a ModuleSpec only when the string
\* holds exactly one ":", which cuts it into module and name; otherwise it
\* raises the assertion error and returns nothing; when it succeeds it has
\* looked nothing up and stores args and kwargs as given.
C9_CreateFromString ==
    (op = "create" /\ made.src.t = "str") =>
        IF Cardinality(Colons(made.src)) = 1
        THEN LET i == CHOOSE j \in Colons(made.src) : TRUE
             IN  /\ res.err = ""
                 /\ trace = <<>>
                 /\ res.val = config
                 /\ config.keys = <<"module", "name", "args", "kwargs">>
                 /\ Get(config, "module").s = Concat(SubSeq(made.src.keys, 1, i - 1))
                 /\ Get(config, "name").s = Concat(SubSeq(made.src.keys, i + 1, Len(made.src.keys)))
                 /\ Get(config, "args") = made.args
                 /\ Get(config, "kwargs") = made.kwargs
        ELSE /\ res.err = "AssertionError"
             /\ res.val = PyNone
             /\ trace = <<>>
             /\ ~made.live

C9_Witness ==
    /\ op = "create" /\ made.src = StrF(<<"a", ":", "b", ":", "c">>)
    /\ res.err = "AssertionError"

\* what the renderer is required to return for the ModuleSpec m
Rendered(m) ==
    LET args == Get(m, "args").items
        kwargs == Get(m, "kwargs")
    IN  Get(m, "module").s \o ":" \o Get(m, "name").s \o "("
        \o join(", ", [i \in DOMAIN args |-> py_str(args[i])])
        \o (IF args # <<>> /\ kwargs.keys # <<>> THEN ", " ELSE "")
        \o join(", ", [i \in DOMAIN kwargs.keys |-> kwargs.keys[i] \o "=" \o py_str(kwargs.items[i])])
        \o ")"

\* a ModuleSpec made by create, its arguments numbers and strings
ScalarSpec(m) ==
    /\ ExactlyFour(m)
    /\ Get(m, "module").t = "str" /\ Get(m, "name").t = "str"
    /\ Get(m, "args").t = "tuple" /\ Get(m, "kwargs").t = "dict"
    /\ \A i \in DOMAIN Get(m, "args").items : Get(m, "args").items[i].t \in {"int", "str"}
    /\ \A i \in DOMAIN Get(m, "kwargs").items : Get(m, "kwargs").items[i].t \in {"int", "str"}

\* C7: to_string(spec) returns "<module>:<name>(" + the args in stored order
\* + the kwargs as name=value in stored order, comma-space separated, + ")",
\* the separator between the two groups only when both are non-empty, each
\* value by its string representation: create("ns:Name", 1, 2, x=3) renders
\* as "ns:Name(1, 2, x=3)".
C7_Render ==
    (op = "to_string" /\ ScalarSpec(config)) =>
        /\ res.err = ""
        /\ res.val.s = Rendered(config)

\* the instance C7 names: to_string(create("ns:Name", 1, 2, x=3))
C7_NamedInstance ==
    (/\ op = "to_string" /\ made.live /\ made.src = StrF(<<"ns", ":", "Name">>)
     /\ made.args = Tuple(<<PyInt(1), PyInt(2)>>) /\ made.kwargs = Dict(<<"x">>, <<PyInt(3)>>))
    => /\ res.err = ""
       /\ res.val.s = "ns:Name(1, 2, x=3)"

(* -------------------- properties of the config tree ------------------- *)

\* the values directly inside v
Children(v) == IF v.t \in {"dict", "list", "tuple", "set", "obj", "partial"} THEN Range(v.items) ELSE {}

\* no mapping with exactly the four fields anywhere in v
RECURSIVE SpecFree(_)
SpecFree(v) == ~ExactlyFour(v) /\ \A c \in Children(v) : SpecFree(c)

\* the number of ModuleSpec nodes the instantiator meets in v
RECURSIVE SpecCount(_)
RECURSIVE SpecCountAll(_)
SpecCountAll(items) == IF items = <<>> THEN 0 ELSE SpecCount(Head(items)) + SpecCountAll(Tail(items))

SpecCount(v) ==
    IF ExactlyFour(v) THEN 1 + SpecCount(Get(v, "args")) + SpecCount(Get(v, "kwargs"))
    ELSE IF v.t \in {"dict", "list", "tuple"} THEN SpecCountAll(v.items)
    ELSE 0

\* the constructed objects in v
RECURSIVE ObjsIn(_)
ObjsIn(v) == (IF v.t = "obj" THEN {v} ELSE {}) \cup UNION {ObjsIn(c) : c \in Children(v)}

\* the names of the dotted path of the last add_kwarg
Names == split(arg.k.keys, ".")

\* the mapping a name is applied to at the node d
Kw(d) == IF ExactlyFour(d) THEN Get(d, "kwargs") ELSE d

C4_InnerFirst ==
    op = "materialize" =>
        /\ \A i \in DOMAIN trace :
               trace[i].ev = "call" =>
                   /\ i > 1 /\ trace[i - 1].ev = "import"
                   /\ SpecFree(trace[i].args) /\ SpecFree(trace[i].kwargs)
                   /\ \A o \in ObjsIn(trace[i].args) \cup ObjsIn(trace[i].kwargs) :
                          \E j \in 1 .. (i - 2) :
                              /\ trace[j].ev = "call"
                              /\ o = Invoke(trace[j].f, trace[j].args.items, trace[j].kwargs)
        /\ (res.err = "" /\ ExactlyFour(config)) =>
               /\ Cardinality({i \in DOMAIN trace : trace[i].ev = "call"}) = SpecCount(config)
               /\ Len(trace) = 2 * SpecCount(config)
               /\ trace[Len(trace) - 1] = ImportEv(Get(config, "module"), Get(config, "name"))
               /\ res.val = Invoke(trace[Len(trace)].f, trace[Len(trace)].args.items, trace[Len(trace)].kwargs)

C4_Witness ==
    /\ op = "materialize" /\ config = NestedSpec /\ res.err = ""
    /\ Len(trace) = 10
    /\ ObjsIn(trace[10].kwargs) # {}

\* C8: materialize returns a structure without a ModuleSpec as it is, every
\* container of the same kind, and looks nothing up and invokes nothing.
C8_Identity ==
    (op = "materialize" /\ SpecFree(config)) =>
        /\ res.err = ""
        /\ res.val = config
        /\ trace = <<>>

C8_Witness ==
    /\ op = "materialize" /\ config = PlainTree
    /\ res.val = PlainTree

(* ----------------------- properties of add_kwarg ---------------------- *)

\* every name of the path but the last exists, and each is applied to a
\* mapping (a plain one, or the kwargs of a ModuleSpec), the last one too
RECURSIVE Resolves(_, _)
Resolves(d, names) ==
    /\ Kw(d).t = "dict"
    /\ \/ Len(names) = 1
       \/ /\ HasKey(Kw(d), Head(names))
          /\ Resolves(Get(Kw(d), Head(names)), Tail(names))

\* the read of the path that goes into the kwargs of every ModuleSpec it
\* meets, the node of the last name included
RECURSIVE Read(_, _)
Read(d, names) ==
    IF Kw(d).t # "dict" \/ ~HasKey(Kw(d), Head(names)) THEN [ok |-> FALSE, val |-> PyNone]
    ELSE IF Len(names) = 1 THEN [ok |-> TRUE, val |-> Get(Kw(d), Head(names))]
    ELSE Read(Get(Kw(d), Head(names)), Tail(names))

\* the keys to follow from d down to the node the last name is applied to
RECURSIVE NodePath(_, _)
NodePath(d, names) ==
    IF Len(names) = 1 THEN <<>>
    ELSE (IF ExactlyFour(d) THEN <<"kwargs">> ELSE <<>>) \o <<Head(names)>>
         \o NodePath(Get(Kw(d), Head(names)), Tail(names))

\* the value under a sequence of keys
RECURSIVE RawGet(_, _)
RawGet(d, keys) ==
    IF keys = <<>> THEN [ok |-> TRUE, val |-> d]
    ELSE IF d.t # "dict" \/ ~HasKey(d, Head(keys)) THEN [ok |-> FALSE, val |-> PyNone]
    ELSE RawGet(Get(d, Head(keys)), Tail(keys))

\* the node the last name of the path was applied to, before and after
NodeBefore == RawGet(arg.old, NodePath(arg.old, Names)).val

NodeAfter == RawGet(config, NodePath(arg.old, Names)).val

\* the keys from the root of the config to the entry that was written
Target ==
    NodePath(arg.old, Names) \o (IF ExactlyFour(NodeBefore) THEN <<"kwargs">> ELSE <<>>)
    \o <<Names[Len(Names)]>>

\* the write gave a plain mapping the last of the four field names
Completes == ~ExactlyFour(NodeBefore) /\ ExactlyFour(NodeAfter)

\* C5 as stated: when the intermediate names exist, add_kwarg stores the
\* value at the path, going into the kwargs of every ModuleSpec on the way,
\* and a read of the path by the same rule returns the value.
C5_ReadBack ==
    (op = "add_kwarg" /\ Resolves(arg.old, Names)) =>
        /\ res.err = ""
        /\ Read(config, Names) = [ok |-> TRUE, val |-> arg.v]

\* C5 amended: the value is stored under the last name in the mapping the
\* path addresses, and the read returns it unless the write made a plain
\* mapping a ModuleSpec by giving it the fourth field name.
C5_Stored ==
    (op = "add_kwarg" /\ Resolves(arg.old, Names)) =>
        /\ res.err = ""
        /\ RawGet(config, Target) = [ok |-> TRUE, val |-> arg.v]
        /\ (Read(config, Names) = [ok |-> TRUE, val |-> arg.v]) <=> ~Completes

C5_Witness ==
    /\ op = "add_kwarg" /\ arg.old = Chain("plain", "spec", "spec")
    /\ arg.k = StrF(<<"a", ".", "b", ".", "c">>) /\ arg.v = PyInt(5)
    /\ res.err = ""
    /\ Read(config, Names) = [ok |-> TRUE, val |-> PyInt(5)]

\* where the path stops for want of a name: "mapping" when a mapping lacks
\* an intermediate name, "other" when the name is applied to a node that is
\* no mapping, "none" when every intermediate name exists
RECURSIVE Missing(_, _)
Missing(d, names) ==
    IF Len(names) = 1 THEN "none"
    ELSE IF Kw(d).t # "dict" THEN "other"
    ELSE IF ~HasKey(Kw(d), Head(names)) THEN "mapping"
    ELSE Missing(Get(Kw(d), Head(names)), Tail(names))

\* how many names of the path were found before it stopped
RECURSIVE Found(_, _)
Found(d, names) ==
    IF Len(names) = 1 \/ Kw(d).t # "dict" \/ ~HasKey(Kw(d), Head(names)) THEN 0
    ELSE 1 + Found(Get(Kw(d), Head(names)), Tail(names))

\* C6 as stated: add_kwarg fails with the error of the missing path segment,
\* the KeyError of the lookup, whenever an intermediate name is absent from
\* the current node, at any position of the path, in a config that is a
\* mapping.
C6_MissingSegment ==
    (op = "add_kwarg" /\ arg.old.t = "dict" /\ Missing(arg.old, Names) # "none") => res.err = "KeyError"

\* C6 amended: it fails with KeyError whenever a current node that is a
\* mapping lacks an intermediate name, at any position, and with TypeError
\* when the current node is no mapping.
C6_LookupError ==
    op = "add_kwarg" =>
        /\ Missing(arg.old, Names) = "mapping" => res.err = "KeyError"
        /\ Missing(arg.old, Names) = "other" => res.err = "TypeError"

C6_Witness ==
    /\ op = "add_kwarg" /\ arg.old = Chain("spec", "plain", "spec")
    /\ arg.k = StrF(<<"a", ".", "b", ".", "x", ".", "c">>)
    /\ Missing(arg.old, Names) = "mapping" /\ Found(arg.old, Names) = 2
    /\ res.err = "KeyError"

\* a value without what it contains
Strip(v) == Val(v.t, v.n, v.s, IF v.t = "dict" THEN <<>> ELSE v.keys, <<>>)

\* every node of v with the keys that lead to it
RECURSIVE Entries(_, _)
Entries(v, prefix) ==
    {<<prefix, Strip(v)>>}
    \cup UNION {Entries(v.items[i], Append(prefix, IF v.t = "dict" THEN v.keys[i] ELSE ToString(i))) :
                  i \in DOMAIN v.items}

IsPrefix(p, q) == Len(p) <= Len(q) /\ SubSeq(q, 1, Len(p)) = p

Outside(v, target) == {e \in Entries(v, <<>>) : ~IsPrefix(target, e[1])}

\* the keys from the root of the config to the mapping that was written into
Addressed == SubSeq(Target, 1, Len(Target) - 1)

\* the ModuleSpec nodes of the config before the write, the ones under the
\* written entry apart, are ModuleSpecs after it with the same module, name
\* and args; `but` is a set of places left out
SpecsKept(but) ==
    \A e \in Outside(arg.old, Target) :
        LET before == RawGet(arg.old, e[1]).val
            after == RawGet(config, e[1]).val
        IN  (e[2].t = "dict" /\ ExactlyFour(before) /\ e[1] \notin but) =>
                /\ ExactlyFour(after)
                /\ \A f \in {"module", "name", "args"} : Get(after, f) = Get(before, f)

\* C10 as stated: a successful add_kwarg changes the one entry of the last
\* name in the mapping it addresses and nothing else: every other entry
\* stays, and every ModuleSpec that was not itself replaced keeps exactly the
\* four fields and its module, name and args; a failed add_kwarg leaves the
\* config as it was.
C10_Frame ==
    op = "add_kwarg" =>
        /\ res.err # "" => config = arg.old
        /\ res.err = "" =>
               /\ Resolves(arg.old, Names)
               /\ Outside(config, Target) = Outside(arg.old, Target)
               /\ SpecsKept({})

\* C10 amended: the same, but the mapping written into is left out of the
\* ModuleSpecs that keep their shape: when the kwargs of a ModuleSpec is
\* itself a mapping with exactly the four fields, the write gives it a fifth
\* key, or replaces one of the four.
C10_FrameButAddressed ==
    op = "add_kwarg" =>
        /\ res.err # "" => config = arg.old
        /\ res.err = "" =>
               /\ Resolves(arg.old, Names)
               /\ Outside(config, Target) = Outside(arg.old, Target)
               /\ SpecsKept({Addressed})
               /\ ExactlyFour(RawGet(arg.old, Addressed).val) =>
                      (Addressed # <<>> /\ Addressed[Len(Addressed)] = "kwargs")

C10_Witness ==
    /\ op = "add_kwarg" /\ nsets = MaxSets /\ res.err = ""
    /\ arg.old # config
    /\ ExactlyFour(arg.old) /\ HasKey(Kw(arg.old), "a") /\ ExactlyFour(Get(Kw(arg.old), "a"))
    /\ Len(Names) = 3

====
